---- MODULE Spec2Model ----
(***************************************************************************)
(* Model of src/src/index.ts: the MCP server built by createServer (tools  *)
(* greet, calculator, primeNumbers, currentTime, geocode, get-weather,     *)
(* generate-image, the server-info resource and the code-review prompt)    *)
(* and the module-level server (greeting, calculator, get_time,            *)
(* generate_image, geocode, get_weather).                                  *)
(*                                                                         *)
(* Scheduling: Node's single-threaded event loop.  One action of the model *)
(* is one turn of the loop: the event (a tool invocation, a timer          *)
(* callback, a network event) together with the handler code that runs up  *)
(* to its next await.  Promise continuations are microtasks and run before *)
(* the next timer or network event, so nothing interleaves between a       *)
(* promise being settled and the code after the await.                     *)
(***************************************************************************)
EXTENDS Integers, Sequences, FiniteSets, TLC

VARIABLES
    inv,        \* inv[i]: the i-th invocation of a network-bound tool
    hfToken,    \* createServer's captured const hfToken ("" = absent)
    envToken,   \* process.env.HF_TOKEN ("" = unset)
    local,      \* the last call of a local (non-suspending) handler and its outcome
    configToken, \* config.hfToken given to createServer ("" = absent)
    history,    \* the calls of local handlers that returned before the last one
    registry,   \* registry[srv]: the tools registered on the server so far
    now,        \* the clock, in ticks since the process started
    serverStartTime,  \* createServer's const serverStartTime (-1: not yet taken)
    infos       \* what the reads of mcp://server-info returned, oldest first

life == <<registry, now, serverStartTime, infos>>
vars == <<inv, hfToken, envToken, local, configToken, history, life>>

\* ------------------------------------------------------------------ bounds
MaxInv == 2        \* invocations of network-bound tools in one run
MaxFinite == 2     \* scaled-down Number.MAX_VALUE: finite numbers have 1/MaxFinite <= |x| <= MaxFinite
MaxN == 26         \* largest integer given to isPrime and primeNumbers
MaxNeg == 3        \* integers down to -MaxNeg are given to isPrime and primeNumbers
MaxCodeLen == 2    \* tokens in the code argument of the code-review prompt
MaxClock == 5      \* the clock stops after this many ticks
TicksPerSecond == 2  \* resolution of the clock
MaxReads == 2      \* reads of mcp://server-info in one run
MaxCalls == 3      \* calls of local handlers in one run of RepeatSpec

Slots == 1..MaxInv

\* ------------------------------------------------------- program constants
GeocodeTimeoutMs == 10000
WeatherTimeoutMs == 15000

\* Upstream behaviours drawn by the network events.
Statuses == {200, 404, 500}
GeoBodies == {"malformed", "notArray", "emptyArray", "array"}
WeatherBodies == {"malformed", "errorFlag", "object"}
ImageOutcomes == {"blob", "reject"}

\* Strings are sequences of tokens; " " is whitespace.
Addresses == {<<>>, <<" ">>, <<"Seoul">>}
Prompts == {<<>>, <<" ">>, <<"cat">>}
Queries == {<<>>, <<"Seoul">>}
ModulePrompts == {<<>>, <<"cat">>}
ConfigTokens == {"", "cfgTok"}
EnvTokens == {"", "envTok"}

\* ------------------------------------------------------------ pure helpers
\* String.prototype.trim
RECURSIVE TrimLeft(_)
TrimLeft(s) ==
    IF s = <<>> THEN <<>>
    ELSE IF Head(s) = " " THEN TrimLeft(Tail(s)) ELSE s

RECURSIVE TrimRight(_)
TrimRight(s) ==
    IF s = <<>> THEN <<>>
    ELSE IF s[Len(s)] = " " THEN TrimRight(SubSeq(s, 1, Len(s) - 1)) ELSE s

Trim(s) == TrimRight(TrimLeft(s))

\* Variant: the environment variable is preferred to the configured token.
ResolveToken_EnvFirst(config, env) == IF env # "" THEN env ELSE config

\* const hfToken = config?.hfToken || process.env.HF_TOKEN

ResolveToken(config, env) == IF config # "" THEN config ELSE env

\* Variant: the status is never looked at.
ResponseOk_AnyStatus(status) == TRUE

\* response.ok: the status is in the range 200-299

ResponseOk(status) == status >= 200 /\ status <= 299

\* ------------------------------------------------------ invocation records
\* pc:     "idle" (not invoked), "fetch" (suspended at await fetch / await
\*         textToImage), "body" (suspended at await response.json()), "done"
\* timer:  "none" (never set), "armed", "cleared" (clearTimeout), "fired"
\* net:    the request on the wire: "none", "inflight", "closed",
\*         "cancelled" (aborted through its signal), "late" (an answer came
\*         for a cancelled request)
\* kind:   "pending", "ok" (the handler returned), "error" (it threw)
\* http:   response.status of the response received (0: none yet)
\* status: the number the error message carries (0: none)
\* ua:     the User-Agent header of the request sent ("" = none given)
\* cred:   the token the InferenceClient was made with ("" = none made)
\* body:   what response.json() gave ("" = not read)
\* ret:    the object the handler returned
NoResult == [content |-> <<>>]

Idle ==
    [srv |-> "", tool |-> "", arg |-> <<>>, pc |-> "idle", timer |-> "none",
     deadline |-> 0, aborted |-> FALSE, requests |-> 0, net |-> "none", http |-> 0,
     kind |-> "pending", cause |-> "", status |-> 0, data |-> "",
     ua |-> "", cred |-> "", body |-> "", ret |-> NoResult]

\* The content items the handlers build.
TextItem(text) == [type |-> "text", text |-> text]

ImageItem(data) == [type |-> "image", data |-> data, mimeType |-> "image/png"]

\* Variant: structuredContent is left empty.
ToolResult_NoStructuredCopy(item) ==
    [content |-> <<item>>, structuredContent |-> [content |-> <<>>]]

\* return { content: [item], structuredContent: { content: [item] } }

ToolResult(item) ==
    [content |-> <<item>>, structuredContent |-> [content |-> <<item>>]]

\* return { content: [item] } (module-level handlers)
ModuleResult(item) == [content |-> <<item>>]

New(srv, tool, arg) == [Idle EXCEPT !.srv = srv, !.tool = tool, !.arg = arg]

CloseNet(n) == IF n \in {"inflight", "body"} THEN "closed" ELSE n

\* throw new Error(...) leaving the handler
Fail(r, cause, status) ==
    [r EXCEPT !.pc = "done", !.kind = "error", !.cause = cause,
              !.status = status, !.net = CloseNet(@)]

\* return result
Succeed(r, data, result) ==
    [r EXCEPT !.pc = "done", !.kind = "ok", !.data = data, !.ret = result,
              !.net = CloseNet(@)]

\* clearTimeout(timeoutId): removes a timer that has not run yet
ClearTimeout(r) == [r EXCEPT !.timer = IF @ = "armed" THEN "cleared" ELSE @]

\* new AbortController(); setTimeout(() => controller.abort(), ms); fetch(url, {signal})
StartRequest(r, ms) ==
    [r EXCEPT !.pc = "fetch", !.timer = "armed", !.deadline = ms,
              !.requests = @ + 1, !.net = "inflight"]

\* fetch(url, {headers}) / client.textToImage(...) with no signal and no timer;
\* the caller adds the headers or the credential
StartUnboundedRequest(r) ==
    [r EXCEPT !.pc = "fetch", !.requests = @ + 1, !.net = "inflight"]

\* Variant: a failure other than the abort sends the request again.
InnerCatch_Retry(r, name, cause, status) ==
    IF name = "AbortError"
    THEN Fail(ClearTimeout(r), "timeout", 0)
    ELSE StartRequest(ClearTimeout(r), r.deadline)

\* Variant: the catch rethrows the AbortError as it is.
InnerCatch_NoAbortCheck(r, name, cause, status) ==
    Fail(ClearTimeout(r), cause, status)

\* catch (fetchError) { clearTimeout(timeoutId); AbortError -> timeout error; else rethrow }
\* (the outer catch then wraps the message with the tool's prefix)

InnerCatch(r, name, cause, status) ==
    IF name = "AbortError"
    THEN Fail(ClearTimeout(r), "timeout", 0)
    ELSE Fail(ClearTimeout(r), cause, status)

\* Variant: the timer is left running once the response has arrived.
AfterFetch_NoClear(r) == r

\* const response = await fetch(...); clearTimeout(timeoutId)

AfterFetch(r) == ClearTimeout(r)

\* ---------------------------------------------------- createServer geocode
GeocodeStart(address) ==
    LET r == New("createServer", "geocode", address)
    IN  IF Trim(address) = <<>>
        THEN Fail(r, "emptyAddress", 0)
        ELSE [StartRequest(r, GeocodeTimeoutMs) EXCEPT !.ua = "MCP-Server/1.0.0"]

GeocodeOnResponse(r, status) ==
    LET c == AfterFetch(r)
    IN  IF ~ResponseOk(status)
        THEN InnerCatch(c, "Error", "status", status)
        ELSE [c EXCEPT !.pc = "body", !.net = "body"]

\* Variant: only Array.isArray is checked; data[0] of an empty array is
\* undefined and reading its lat throws a TypeError.
GeocodeOnBody_NoLengthCheck(r, body) ==
    CASE body = "malformed" -> InnerCatch(r, "SyntaxError", "malformed", 0)
      [] body = "notArray" -> InnerCatch(r, "Error", "notFound", 0)
      [] body = "emptyArray" -> InnerCatch(r, "TypeError", "typeError", 0)
      [] OTHER -> Succeed(r, "first", ToolResult(TextItem("first")))

\* const data = await response.json(); not an array or empty -> not found;
\* const result = data[0]; return the coordinates of result

GeocodeOnBody(r, body) ==
    CASE body = "malformed" -> InnerCatch(r, "SyntaxError", "malformed", 0)
      [] body \in {"notArray", "emptyArray"} -> InnerCatch(r, "Error", "notFound", 0)
      [] OTHER -> Succeed(r, "first", ToolResult(TextItem("first")))

\* ------------------------------------------------ createServer get-weather
WeatherStart ==
    StartRequest(New("createServer", "get-weather", <<>>), WeatherTimeoutMs)

WeatherOnResponse(r, status) ==
    LET c == AfterFetch(r)
    IN  IF ~ResponseOk(status)
        THEN InnerCatch(c, "Error", "status", status)
        ELSE [c EXCEPT !.pc = "body", !.net = "body"]

WeatherOnBody(r, body) ==
    CASE body = "malformed" -> InnerCatch(r, "SyntaxError", "malformed", 0)
      [] body = "errorFlag" -> InnerCatch(r, "Error", "apiError", 0)
      [] OTHER -> Succeed(r, "weather", ToolResult(TextItem("weather")))

\* --------------------------------------------- createServer generate-image
GenerateImageStart(prompt, token) ==
    LET r == New("createServer", "generate-image", prompt)
    IN  IF Trim(prompt) = <<>> THEN Fail(r, "emptyPrompt", 0)
        ELSE IF token = "" THEN Fail(r, "noToken", 0)
        ELSE [StartUnboundedRequest(r) EXCEPT !.cred = token]

GenerateImageOnOutcome(r, outcome) ==
    IF outcome = "blob"
    THEN Succeed(r, "image", ToolResult(ImageItem("base64")))
    ELSE Fail(r, "provider", 0)

\* ------------------------------------------------- module-level server
ModuleGeocodeStart(query) ==
    [StartUnboundedRequest(New("module", "geocode", query))
        EXCEPT !.ua = "typescript-mcp-server/1.0.0"]

ModuleOnResponse(r, status) ==
    IF ~ResponseOk(status)
    THEN Fail(r, "status", status)
    ELSE [r EXCEPT !.pc = "body", !.net = "body"]

ModuleGeocodeOnBody(r, body) ==
    CASE body = "malformed" -> Fail(r, "malformed", 0)
      [] body = "emptyArray" -> Succeed(r, "noResults", ModuleResult(TextItem("noResults")))
      [] body = "notArray" -> Fail(r, "typeError", 0)
      [] OTHER -> Succeed(r, "list", ModuleResult(TextItem("list")))

ModuleWeatherStart ==
    [StartUnboundedRequest(New("module", "get_weather", <<>>))
        EXCEPT !.ua = "typescript-mcp-server/1.0.0"]

ModuleWeatherOnBody(r, body) ==
    CASE body = "malformed" -> Fail(r, "malformed", 0)
      [] body = "errorFlag" -> Fail(r, "apiError", 0)
      [] OTHER -> Succeed(r, "weather", ModuleResult(TextItem("weather")))

ModuleGenerateImageStart(prompt, env) ==
    LET r == New("module", "generate_image", prompt)
    IN  IF env = "" THEN Fail(r, "noToken", 0)
        ELSE [StartUnboundedRequest(r) EXCEPT !.cred = env]

ModuleGenerateImageOnOutcome(r, outcome) ==
    IF outcome = "blob"
    THEN Succeed(r, "image", ModuleResult(ImageItem("base64")))
    ELSE Fail(r, "provider", 0)

\* ------------------------------------------------------ the deadline timer
\* Variant: one controller shared by all invocations.
AbortTargets_Shared(i) == Slots

\* The controllers a timer callback aborts: the one created by its own invocation.

AbortTargets(i) == {i}

\* controller.abort(): the signal becomes aborted; a pending fetch (or body
\* read) on that signal rejects with AbortError and the handler's catch runs.
Abort(r) ==
    IF r.timer = "none" THEN r
    ELSE IF r.pc \in {"fetch", "body"}
         THEN InnerCatch([r EXCEPT !.aborted = TRUE, !.net = "cancelled"],
                         "AbortError", "abort", 0)
         ELSE [r EXCEPT !.aborted = TRUE]

HttpTool(r) == r.tool \in {"geocode", "get-weather", "get_weather"}

\* ------------------------------------------------------------ JS numbers
\* A number is a record: k = "fin" (n/d in lowest terms, d > 0), "inf" or
\* "nan"; neg is the sign (it tells -0 from +0).  Only the range of IEEE 754
\* doubles is modelled, scaled down: a result beyond MaxFinite overflows to
\* Infinity, one below 1/MaxFinite underflows to zero; rounding is not.
Abs(x) == IF x < 0 THEN -x ELSE x

RECURSIVE GCD(_, _)
GCD(a, b) == IF b = 0 THEN a ELSE GCD(b, a % b)

Zero(neg) == [k |-> "fin", n |-> 0, d |-> 1, neg |-> neg]
Infinity(neg) == [k |-> "inf", n |-> 0, d |-> 1, neg |-> neg]
NaN == [k |-> "nan", n |-> 0, d |-> 1, neg |-> FALSE]

\* The double nearest to the exact value n/d (d > 0); negIfZero signs an exact zero.
ToNumber(n, d, negIfZero) ==
    IF n = 0 THEN Zero(negIfZero)
    ELSE IF Abs(n) > MaxFinite * d THEN Infinity(n < 0)
    ELSE IF Abs(n) * MaxFinite < d THEN Zero(n < 0)
    ELSE LET g == GCD(Abs(n), d)
         IN  [k |-> "fin", n |-> n \div g, d |-> d \div g, neg |-> n < 0]

Floats ==
    {Zero(FALSE), Zero(TRUE)}
        \cup {ToNumber(m, 1, FALSE) : m \in 1..MaxFinite}
        \cup {ToNumber(-m, 1, FALSE) : m \in 1..MaxFinite}
        \cup {ToNumber(1, m, FALSE) : m \in 2..MaxFinite}
        \cup {ToNumber(-1, m, FALSE) : m \in 2..MaxFinite}

\* num === 0 (true of +0 and of -0)
IsZero(x) == x.k = "fin" /\ x.n = 0

\* The four operators on finite operands.
NumAdd(a, b) == ToNumber(a.n * b.d + b.n * a.d, a.d * b.d, a.neg /\ b.neg)
NumSub(a, b) == ToNumber(a.n * b.d - b.n * a.d, a.d * b.d, a.neg /\ ~b.neg)
NumMul(a, b) == ToNumber(a.n * b.n, a.d * b.d, a.neg # b.neg)
NumDiv(a, b) ==
    IF b.n = 0
    THEN (IF a.n = 0 THEN NaN ELSE Infinity(a.neg # b.neg))
    ELSE ToNumber(IF b.n < 0 THEN -(a.n * b.d) ELSE a.n * b.d,
                  a.d * Abs(b.n), a.neg # b.neg)

Threw(cause) == [kind |-> "error", cause |-> cause, text |-> <<>>]
Returned(text) == [kind |-> "ok", cause |-> "", text |-> text]

\* calculator handler (createServer); the text is `${num1} ${operator} ${num2} = ${result}`
\* What a handler that returned hands back: the text in one text item.
ToolReturn(out, text) ==
    IF out.kind = "ok" THEN ToolResult(TextItem(text)) ELSE NoResult

ModuleReturn(out, text) ==
    IF out.kind = "ok" THEN ModuleResult(TextItem(text)) ELSE NoResult

\* ------------------------------------------------------------------ greet
\* language is one of the enum values; "" stands for an omitted argument,
\* which the input schema replaces by 'en'.
Names == {<<>>, <<"Ann">>}
LanguageArgs == {"", "ko", "en", "es", "ja"}

Greet(name, languageArg) ==
    LET language == IF languageArg = "" THEN "en" ELSE languageArg
    IN  CASE language = "ko" -> Returned(<<"annyeonghaseyo">> \o name \o <<"nim">>)
          [] language = "es" -> Returned(<<"hola">> \o name \o <<"mucho gusto">>)
          [] language = "ja" -> Returned(<<"konnichiwa">> \o name \o <<"san">>)
          [] OTHER -> Returned(<<"hey there">> \o name \o <<"nice to meet you">>)

\* ------------------------------------------------------------ currentTime
\* "" stands for an omitted timezone (schema default 'Asia/Seoul'); an
\* unknown zone makes new Intl.DateTimeFormat throw a RangeError.
ValidTimezones == {"Asia/Seoul", "Europe/London"}
TimezoneArgs == {""} \cup ValidTimezones \cup {"Mars/Phobos"}

CurrentTime(timezoneArg, t) ==
    LET timezone == IF timezoneArg = "" THEN "Asia/Seoul" ELSE timezoneArg
    IN  IF timezone \in ValidTimezones
        THEN Returned(<<"now", timezone, t>>)
        ELSE Threw("timezone")

Operators == {"+", "-", "*", "/"}

Calculator(num1, num2, operator) ==
    CASE operator = "+" -> Returned(<<NumAdd(num1, num2)>>)
      [] operator = "-" -> Returned(<<NumSub(num1, num2)>>)
      [] operator = "*" -> Returned(<<NumMul(num1, num2)>>)
      [] operator = "/" ->
            IF IsZero(num2) THEN Threw("divideByZero")
            ELSE Returned(<<NumDiv(num1, num2)>>)
      [] OTHER -> Threw("unsupported")

\* calculator handler (module-level server)
Operations == {"add", "subtract", "multiply", "divide"}

ModuleCalculator(operation, a, b) ==
    CASE operation = "add" -> Returned(<<NumAdd(a, b)>>)
      [] operation = "subtract" -> Returned(<<NumSub(a, b)>>)
      [] operation = "multiply" -> Returned(<<NumMul(a, b)>>)
      [] operation = "divide" ->
            IF IsZero(b) THEN Threw("divideByZero")
            ELSE Returned(<<NumDiv(a, b)>>)
      [] OTHER -> Threw("unsupported")

\* ------------------------------------------------------------------ primes
Ints == (-MaxNeg)..MaxN

\* for (let i = 3; i <= Math.sqrt(n); i += 2) if (n % i === 0) return false
RECURSIVE OddDivisorFrom(_, _)
OddDivisorFrom(n, i) ==
    IF i * i > n THEN FALSE
    ELSE IF n % i = 0 THEN TRUE
    ELSE OddDivisorFrom(n, i + 2)

\* Variant: isPrime without its first line, if (n < 2) return false.
isPrime_NoLowerGuard(n) ==
    IF n = 2 THEN TRUE
    ELSE IF n % 2 = 0 THEN FALSE
    ELSE ~OddDivisorFrom(n, 3)

isPrime(n) ==
    IF n < 2 THEN FALSE
    ELSE IF n = 2 THEN TRUE
    ELSE IF n % 2 = 0 THEN FALSE
    ELSE ~OddDivisorFrom(n, 3)

Max(a, b) == IF a > b THEN a ELSE b

\* for (let i = actualStart; i <= end; i++) if (isPrime(i)) primes.push(i)
RECURSIVE CollectPrimes(_, _, _)
CollectPrimes(i, end, primes) ==
    IF i > end THEN primes
    ELSE CollectPrimes(i + 1, end, IF isPrime(i) THEN Append(primes, i) ELSE primes)

\* Variant: the loop runs while i < end.
primeNumbers_EndExcluded(start, end) ==
    IF start > end THEN [kind |-> "error", cause |-> "range", primes |-> <<>>,
                         count |-> 0, none |-> FALSE]
    ELSE LET primes == CollectPrimes(Max(2, start), end - 1, <<>>)
         IN  [kind |-> "ok", cause |-> "", primes |-> primes,
              count |-> Len(primes), none |-> Len(primes) = 0]

\* primeNumbers handler: the text lists primes.join(", ") and primes.length,
\* or says that the range holds none
primeNumbers(start, end) ==
    IF start > end THEN [kind |-> "error", cause |-> "range", primes |-> <<>>,
                         count |-> 0, none |-> FALSE]
    ELSE LET primes == CollectPrimes(Max(2, start), end, <<>>)
         IN  [kind |-> "ok", cause |-> "", primes |-> primes,
              count |-> Len(primes), none |-> Len(primes) = 0]

\* ------------------------------------------------------ code-review prompt
\* Text is a sequence of tokens.  The tokens "{code}" and "{reviewFocus}" are
\* the text of the placeholders; "$$", "$&", "$<" (dollar, backtick) and
\* "$>" (dollar, apostrophe) are the two-character patterns that
\* String.prototype.replace expands in a replacement string.
codeReviewPromptTemplate ==
    <<"checklist", "{code}", "request", "{reviewFocus}", "closing">>

FallbackFocus == <<"overall code quality">>

CodeTokens == {"x", "{code}", "{reviewFocus}", "$$", "$&", "$<", "$>"}
Codes == UNION {[1..n -> CodeTokens] : n \in 0..MaxCodeLen}
FocusArgs ==
    {[given |-> FALSE, text |-> <<>>]}
        \cup {[given |-> TRUE, text |-> t] :
                 t \in {<<>>, <<"security">>, <<"$&">>, <<"{code}">>}}

RECURSIVE IndexOf(_, _, _)
IndexOf(s, pat, from) ==
    IF from > Len(s) THEN 0
    ELSE IF s[from] = pat THEN from
    ELSE IndexOf(s, pat, from + 1)

\* GetSubstitution: the replacement string with its $ patterns expanded
RECURSIVE Expand(_, _, _, _)
Expand(repl, matched, before, after) ==
    IF repl = <<>> THEN <<>>
    ELSE LET t == Head(repl)
             out == CASE t = "$$" -> <<"$">>
                      [] t = "$&" -> <<matched>>
                      [] t = "$<" -> before
                      [] t = "$>" -> after
                      [] OTHER -> <<t>>
         IN  out \o Expand(Tail(repl), matched, before, after)

\* s.replace(pat, repl) with a string pattern: the first occurrence only
Replace(s, pat, repl) ==
    LET at == IndexOf(s, pat, 1)
    IN  IF at = 0 THEN s
        ELSE LET before == SubSeq(s, 1, at - 1)
                 after == SubSeq(s, at + 1, Len(s))
             IN  before \o Expand(repl, pat, before, after) \o after

\* code-review prompt handler
CodeReview(code, focus) ==
    LET reviewFocus == IF focus.given /\ focus.text # <<>> THEN focus.text
                       ELSE FallbackFocus
    IN  Replace(Replace(codeReviewPromptTemplate, "{code}", code),
                "{reviewFocus}", reviewFocus)

\* ------------------------------------------------------- tool registries
\* The names given to server.registerTool(...) by createServer, and to
\* server.tool(...) at module level, in the order of the calls.
Servers == {"createServer", "module"}

\* Variant: the weather tool is registered under the geocode tool's name.
CreateServerTools_Duplicate ==
    <<"greet", "calculator", "primeNumbers", "currentTime", "geocode",
      "geocode", "generate-image">>

CreateServerTools ==
    <<"greet", "calculator", "primeNumbers", "currentTime", "geocode",
      "get-weather", "generate-image">>

ModuleTools ==
    <<"greeting", "calculator", "get_time", "generate_image", "geocode",
      "get_weather">>

ToolCalls(srv) == IF srv = "createServer" THEN CreateServerTools ELSE ModuleTools

Range(s) == {s[k] : k \in 1..Len(s)}

\* names: the registered tools in registration order; calls: registration
\* calls made; failed: a registration threw and construction was abandoned.
EmptyRegistry == [names |-> <<>>, calls |-> 0, failed |-> FALSE]

\* server.registerTool(name, ...) / server.tool(name, ...): a name that is
\* already registered makes the call throw; nothing is replaced.
RegisterTool(reg, name) ==
    IF name \in Range(reg.names)
    THEN [reg EXCEPT !.calls = @ + 1, !.failed = TRUE]
    ELSE [reg EXCEPT !.calls = @ + 1, !.names = Append(@, name)]

RECURSIVE RegisterAll(_, _)
RegisterAll(reg, names) ==
    IF names = <<>> \/ reg.failed THEN reg
    ELSE RegisterAll(RegisterTool(reg, Head(names)), Tail(names))

\* The registry of a server whose construction has run to its end.
Built(srv) == RegisterAll(EmptyRegistry, ToolCalls(srv))

Constructed(srv) == registry[srv].failed \/ registry[srv].calls = Len(ToolCalls(srv))

NoCall == [op |-> "none"]

\* ------------------------------------------------------------------ Init
\* The state once both servers are built: the module-level server at import,
\* the other by createServer(config).
Init ==
    /\ inv = [i \in Slots |-> Idle]
    /\ configToken \in ConfigTokens
    /\ envToken \in EnvTokens
    /\ hfToken = ResolveToken(configToken, envToken)
    /\ local = NoCall
    /\ history = <<>>
    /\ registry = [srv \in Servers |-> Built(srv)]
    /\ now = 0
    /\ serverStartTime = 0
    /\ infos = <<>>

\* --------------------------------------------------------------- actions
InvokeGeocode(i, address) ==
    /\ inv[i].pc = "idle"
    /\ inv' = [inv EXCEPT ![i] = GeocodeStart(address)]
    /\ UNCHANGED <<hfToken, envToken, local, configToken, history, life>>

InvokeGetWeather(i) ==
    /\ inv[i].pc = "idle"
    /\ inv' = [inv EXCEPT ![i] = WeatherStart]
    /\ UNCHANGED <<hfToken, envToken, local, configToken, history, life>>

InvokeGenerateImage(i, prompt) ==
    /\ inv[i].pc = "idle"
    /\ inv' = [inv EXCEPT ![i] = GenerateImageStart(prompt, hfToken)]
    /\ UNCHANGED <<hfToken, envToken, local, configToken, history, life>>

InvokeModuleGeocode(i, query) ==
    /\ inv[i].pc = "idle"
    /\ inv' = [inv EXCEPT ![i] = ModuleGeocodeStart(query)]
    /\ UNCHANGED <<hfToken, envToken, local, configToken, history, life>>

InvokeModuleGetWeather(i) ==
    /\ inv[i].pc = "idle"
    /\ inv' = [inv EXCEPT ![i] = ModuleWeatherStart]
    /\ UNCHANGED <<hfToken, envToken, local, configToken, history, life>>

InvokeModuleGenerateImage(i, prompt) ==
    /\ inv[i].pc = "idle"
    /\ inv' = [inv EXCEPT ![i] = ModuleGenerateImageStart(prompt, envToken)]
    /\ UNCHANGED <<hfToken, envToken, local, configToken, history, life>>

\* The status line and headers of the response arrive: await fetch resumes.
ResponseArrives(i, status) ==
    /\ inv[i].pc = "fetch"
    /\ HttpTool(inv[i])
    /\ inv' = [inv EXCEPT ![i] =
                  LET r == [@ EXCEPT !.http = status]
                  IN  IF r.srv = "module" THEN ModuleOnResponse(r, status)
                      ELSE IF r.tool = "geocode" THEN GeocodeOnResponse(r, status)
                      ELSE WeatherOnResponse(r, status)]
    /\ UNCHANGED <<hfToken, envToken, local, configToken, history, life>>

\* A transport failure (DNS, connection reset) rejects await fetch.
FetchFails(i) ==
    /\ inv[i].pc = "fetch"
    /\ HttpTool(inv[i])
    /\ inv' = [inv EXCEPT ![i] =
                  IF @.srv = "module" THEN Fail(@, "network", 0)
                  ELSE InnerCatch(@, "TypeError", "network", 0)]
    /\ UNCHANGED <<hfToken, envToken, local, configToken, history, life>>

\* The body has been read to its end: await response.json() resumes.
BodyArrives(i, body) ==
    /\ inv[i].pc = "body"
    /\ body \in (IF inv[i].tool = "geocode" THEN GeoBodies ELSE WeatherBodies)
    /\ inv' = [inv EXCEPT ![i] =
                  LET r == [@ EXCEPT !.body = body]
                  IN  IF r.srv = "module"
                      THEN (IF r.tool = "geocode" THEN ModuleGeocodeOnBody(r, body)
                            ELSE ModuleWeatherOnBody(r, body))
                      ELSE (IF r.tool = "geocode" THEN GeocodeOnBody(r, body)
                            ELSE WeatherOnBody(r, body))]
    /\ UNCHANGED <<hfToken, envToken, local, configToken, history, life>>

\* await textToImage(...) settles.
ImageArrives(i, outcome) ==
    /\ inv[i].pc = "fetch"
    /\ ~HttpTool(inv[i])
    /\ inv' = [inv EXCEPT ![i] =
                  IF @.srv = "module" THEN ModuleGenerateImageOnOutcome(@, outcome)
                  ELSE GenerateImageOnOutcome(@, outcome)]
    /\ UNCHANGED <<hfToken, envToken, local, configToken, history, life>>

\* The deadline elapses: the timer callback () => controller.abort() runs.
TimerFire(i) ==
    /\ inv[i].timer = "armed"
    /\ inv' = [j \in Slots |->
                  LET r == IF j = i THEN [inv[j] EXCEPT !.timer = "fired"] ELSE inv[j]
                  IN  IF j \in AbortTargets(i) THEN Abort(r) ELSE r]
    /\ UNCHANGED <<hfToken, envToken, local, configToken, history, life>>

\* The upstream answers a request that was cancelled: nobody awaits it.
LateResponse(i) ==
    /\ inv[i].net = "cancelled"
    /\ inv' = [inv EXCEPT ![i].net = "late"]
    /\ UNCHANGED <<hfToken, envToken, local, configToken, history, life>>

Next ==
    \/ \E i \in Slots, a \in Addresses : InvokeGeocode(i, a)
    \/ \E i \in Slots : InvokeGetWeather(i)
    \/ \E i \in Slots, p \in Prompts : InvokeGenerateImage(i, p)
    \/ \E i \in Slots, q \in Queries : InvokeModuleGeocode(i, q)
    \/ \E i \in Slots : InvokeModuleGetWeather(i)
    \/ \E i \in Slots, p \in ModulePrompts : InvokeModuleGenerateImage(i, p)
    \/ \E i \in Slots, s \in Statuses : ResponseArrives(i, s)
    \/ \E i \in Slots : FetchFails(i)
    \/ \E i \in Slots, b \in GeoBodies \cup WeatherBodies : BodyArrives(i, b)
    \/ \E i \in Slots, o \in ImageOutcomes : ImageArrives(i, o)
    \/ \E i \in Slots : TimerFire(i)
    \/ \E i \in Slots : LateResponse(i)

Spec == Init /\ [][Next]_vars

\* Timers that are armed do run; the upstream owes nothing.
FairSpec == Spec /\ \A i \in Slots : WF_vars(TimerFire(i))

\* ------------------------------------------- handlers that never suspend
\* These handlers read their arguments only and run to completion; a
\* behaviour of LocalSpec is one call of one of them.
CallCalculator(num1, num2, operator) ==
    /\ local.op = "none"
    /\ local' = [op |-> "calculator", srv |-> "createServer",
                 args |-> [a |-> num1, b |-> num2, operator |-> operator],
                 out |-> Calculator(num1, num2, operator),
                 ret |-> LET out == Calculator(num1, num2, operator)
                         IN  ToolReturn(out, out.text)]
    /\ UNCHANGED <<inv, hfToken, envToken, configToken, history, life>>

CallModuleCalculator(operation, a, b) ==
    /\ local.op = "none"
    /\ local' = [op |-> "calculator", srv |-> "module",
                 args |-> [a |-> a, b |-> b, operator |-> operation],
                 out |-> ModuleCalculator(operation, a, b),
                 ret |-> LET out == ModuleCalculator(operation, a, b)
                         IN  ModuleReturn(out, out.text)]
    /\ UNCHANGED <<inv, hfToken, envToken, configToken, history, life>>

CallPrimeNumbers(start, end) ==
    /\ local.op = "none"
    /\ local' = [op |-> "primeNumbers", srv |-> "createServer",
                 args |-> [start |-> start, end |-> end],
                 out |-> primeNumbers(start, end),
                 ret |-> LET out == primeNumbers(start, end)
                         IN  ToolReturn(out, <<out.primes, out.count>>)]
    /\ UNCHANGED <<inv, hfToken, envToken, configToken, history, life>>

\* Variant: the greeting carries the number of calls made before it.
CallGreet_Counting(name, language) ==
    /\ local.op = "none"
    /\ local' = [op |-> "greet", srv |-> "createServer",
                 args |-> [name |-> name, language |-> language],
                 out |-> Returned(<<Len(history)>> \o Greet(name, language).text),
                 ret |-> ToolReturn(Greet(name, language),
                                    <<Len(history)>> \o Greet(name, language).text)]
    /\ UNCHANGED <<inv, hfToken, envToken, configToken, history, life>>

CallGreet(name, language) ==
    /\ local.op = "none"
    /\ local' = [op |-> "greet", srv |-> "createServer",
                 args |-> [name |-> name, language |-> language],
                 out |-> Greet(name, language),
                 ret |-> LET out == Greet(name, language)
                         IN  ToolReturn(out, out.text)]
    /\ UNCHANGED <<inv, hfToken, envToken, configToken, history, life>>

CallCurrentTime(timezone) ==
    /\ local.op = "none"
    /\ local' = [op |-> "currentTime", srv |-> "createServer",
                 args |-> [timezone |-> timezone],
                 out |-> CurrentTime(timezone, now),
                 ret |-> LET out == CurrentTime(timezone, now)
                         IN  ToolReturn(out, out.text)]
    /\ UNCHANGED <<inv, hfToken, envToken, configToken, history, life>>

CallIsPrime(n) ==
    /\ local.op = "none"
    /\ local' = [op |-> "isPrime", srv |-> "createServer",
                 args |-> [n |-> n], out |-> isPrime(n)]
    /\ UNCHANGED <<inv, hfToken, envToken, configToken, history, life>>

CallCodeReview(code, focus) ==
    /\ local.op = "none"
    /\ local' = [op |-> "codeReview", srv |-> "createServer",
                 args |-> [code |-> code, focus |-> focus],
                 out |-> CodeReview(code, focus)]
    /\ UNCHANGED <<inv, hfToken, envToken, configToken, history, life>>

LocalNext ==
    \/ \E n \in Names, l \in LanguageArgs : CallGreet(n, l)
    \/ \E z \in TimezoneArgs : CallCurrentTime(z)
    \/ \E a \in Floats, b \in Floats, o \in Operators : CallCalculator(a, b, o)
    \/ \E o \in Operations, a \in Floats, b \in Floats : CallModuleCalculator(o, a, b)
    \/ \E s \in Ints, e \in Ints : CallPrimeNumbers(s, e)
    \/ \E n \in Ints : CallIsPrime(n)
    \/ \E c \in Codes, f \in FocusArgs : CallCodeReview(c, f)

LocalSpec == Init /\ [][LocalNext]_vars

\* ------------------------------------------------ calls one after another
\* The result of the last call has been delivered; the handlers can be
\* called again.
Forget ==
    /\ local.op # "none"
    /\ Len(history) + 1 < MaxCalls
    /\ history' = Append(history, local)
    /\ local' = NoCall
    /\ UNCHANGED <<inv, hfToken, envToken, configToken, life>>

\* A few arguments of each pure tool, enough to repeat a call.
RepeatNumbers == {Zero(FALSE), ToNumber(1, 1, FALSE)}
RepeatRanges == {<<2, 10>>, <<10, 2>>}

RepeatNext ==
    \/ \E n \in Names, l \in {"", "ko"} : CallGreet(n, l)
    \/ \E a \in RepeatNumbers, b \in RepeatNumbers, o \in {"+", "/"} :
          CallCalculator(a, b, o)
    \/ \E g \in RepeatRanges : CallPrimeNumbers(g[1], g[2])
    \/ Forget

RepeatSpec == Init /\ [][RepeatNext]_vars

\* ------------------------------------- one invocation of any tool
\* The network events of invocation i.
NetStep(i) ==
    \/ \E a \in Addresses : InvokeGeocode(i, a)
    \/ InvokeGetWeather(i)
    \/ \E p \in Prompts : InvokeGenerateImage(i, p)
    \/ \E s \in Statuses : ResponseArrives(i, s)
    \/ FetchFails(i)
    \/ \E b \in GeoBodies \cup WeatherBodies : BodyArrives(i, b)
    \/ \E o \in ImageOutcomes : ImageArrives(i, o)
    \/ TimerFire(i)
    \/ LateResponse(i)

\* The tools of createServer: a call of a local one and, beside it, one
\* invocation of a network-bound one.
ToolNext ==
    \/ NetStep(1)
    \/ \E n \in Names, l \in LanguageArgs : CallGreet(n, l)
    \/ \E z \in TimezoneArgs : CallCurrentTime(z)
    \/ \E a \in RepeatNumbers, b \in RepeatNumbers, o \in Operators :
          CallCalculator(a, b, o)
    \/ \E g \in RepeatRanges : CallPrimeNumbers(g[1], g[2])

ToolSpec == Init /\ [][ToolNext]_vars

\* ------------------------------------------------- the server-info resource
\* formatUptime(seconds), on a time given in ticks: the parts that are
\* joined with ' ', each a number and its unit.
formatUptime(t) ==
    LET day == 86400 * TicksPerSecond
        hour == 3600 * TicksPerSecond
        minute == 60 * TicksPerSecond
        days == t \div day
        hours == (t % day) \div hour
        minutes == (t % hour) \div minute
        secs == (t % minute) \div TicksPerSecond
        p1 == IF days > 0 THEN <<<<days, "d">>>> ELSE <<>>
        p2 == IF hours > 0 THEN Append(p1, <<hours, "h">>) ELSE p1
        p3 == IF minutes > 0 THEN Append(p2, <<minutes, "m">>) ELSE p2
    IN  IF secs > 0 \/ p3 = <<>> THEN Append(p3, <<secs, "s">>) ELSE p3

\* Variant: the listing names the two lookup tools in the other order.
ServerInfoTools_Reordered ==
    <<"greet", "calculator", "primeNumbers", "currentTime", "get-weather",
      "geocode", "generate-image">>

\* The names in the tools array of the serverInfo literal.

ServerInfoTools ==
    <<"greet", "calculator", "primeNumbers", "currentTime", "geocode",
      "get-weather", "generate-image">>

\* Variant: startTime is taken when the resource is read.
ServerInfo_StartTimeAtRead(start, t) ==
    [name |-> "test-mcp-server", startTime |-> t,
     uptime |-> t \div TicksPerSecond, uptimeFormatted |-> formatUptime(t),
     tools |-> ServerInfoTools, timestamp |-> t]

\* The serverInfo object built by the handler when the clock shows t:
\* startTime from the captured serverStartTime, uptime and uptimeFormatted
\* from process.uptime(), timestamp from new Date().

ServerInfo(start, t) ==
    [name |-> "test-mcp-server", startTime |-> start,
     uptime |-> t \div TicksPerSecond, uptimeFormatted |-> formatUptime(t),
     tools |-> ServerInfoTools, timestamp |-> t]

\* ------------------------------------------- the environment variable
\* process.env.HF_TOKEN is given another value while the servers run.
EnvChange(e) ==
    /\ e # envToken
    /\ envToken' = e
    /\ UNCHANGED <<inv, hfToken, local, configToken, history, life>>

CredNext ==
    \/ \E e \in EnvTokens : EnvChange(e)
    \/ \E i \in Slots, p \in Prompts : InvokeGenerateImage(i, p)
    \/ \E i \in Slots, p \in ModulePrompts : InvokeModuleGenerateImage(i, p)
    \/ \E i \in Slots, o \in ImageOutcomes : ImageArrives(i, o)

CredSpec == Init /\ [][CredNext]_vars

\* --------------------------------------------- construction and reads
\* The state when the process starts: nothing is registered yet.
BootInit ==
    /\ inv = [i \in Slots |-> Idle]
    /\ configToken \in ConfigTokens
    /\ envToken \in EnvTokens
    /\ hfToken = ResolveToken(configToken, envToken)
    /\ local = NoCall
    /\ history = <<>>
    /\ registry = [srv \in Servers |-> EmptyRegistry]
    /\ now = 0
    /\ serverStartTime = -1
    /\ infos = <<>>

\* The next server.registerTool / server.tool call of the server's construction.
RegisterNextTool(srv) ==
    /\ ~Constructed(srv)
    /\ registry' = [registry EXCEPT
                       ![srv] = RegisterTool(@, ToolCalls(srv)[@.calls + 1])]
    /\ UNCHANGED <<inv, hfToken, envToken, local, configToken, history, now,
                   serverStartTime, infos>>

\* const serverStartTime = new Date(), then the resource and the prompt are
\* registered and createServer returns the server.
StartServer ==
    /\ Constructed("createServer")
    /\ ~registry["createServer"].failed
    /\ serverStartTime = -1
    /\ serverStartTime' = now
    /\ UNCHANGED <<inv, hfToken, envToken, local, configToken, history, registry,
                   now, infos>>

Tick ==
    /\ now < MaxClock
    /\ now' = now + 1
    /\ UNCHANGED <<inv, hfToken, envToken, local, configToken, history, registry,
                   serverStartTime, infos>>

\* A read of mcp://server-info.
ReadServerInfo ==
    /\ serverStartTime >= 0
    /\ Len(infos) < MaxReads
    /\ infos' = Append(infos, ServerInfo(serverStartTime, now))
    /\ UNCHANGED <<inv, hfToken, envToken, local, configToken, history, registry,
                   now, serverStartTime>>

ServerNext ==
    \/ \E srv \in Servers : RegisterNextTool(srv)
    \/ StartServer
    \/ Tick
    \/ ReadServerInfo

ServerSpec == BootInit /\ [][ServerNext]_vars

\* ------------------------------------------------------------------ claims
Bounded(r) == r.srv = "createServer" /\ r.tool \in {"geocode", "get-weather"}

\* C1: in the createServer geocode (10 s) and get-weather (15 s) handlers a
\* deadline that fires before the response arrives aborts the in-flight
\* request and ends the invocation with the timeout error; an invocation
\* whose deadline has fired never holds a success, also after a late answer.
C1_DeadlineYieldsTimeout ==
    \A i \in Slots :
        LET r == inv[i]
        IN  /\ (Bounded(r) /\ r.tool = "geocode" /\ r.timer # "none")
                   => r.deadline = GeocodeTimeoutMs
            /\ (Bounded(r) /\ r.tool = "get-weather") => r.deadline = WeatherTimeoutMs
            /\ r.timer = "fired" =>
                   /\ Bounded(r)
                   /\ r.aborted
                   /\ r.net \in {"cancelled", "late"}
                   /\ r.pc = "done" /\ r.kind = "error" /\ r.cause = "timeout"

C1_Witness ==
    \E i, j \in Slots :
        /\ inv[i].tool = "geocode" /\ inv[i].timer = "fired" /\ inv[i].net = "late"
        /\ inv[i].cause = "timeout"
        /\ inv[j].tool = "get-weather" /\ inv[j].timer = "fired" /\ inv[j].cause = "timeout"

\* C2: every invocation of a network-bound tool eventually returns a result
\* or an error, whatever the upstream does (never answering, stalling while
\* the body is read, failing).
C2_EveryInvocationReturns ==
    \A i \in Slots : (inv[i].pc # "idle") ~> (inv[i].pc = "done")

\* The part of C2 the deadline does give: a createServer geocode or
\* get-weather invocation does not wait for the response headers forever.
C2_FetchWaitIsBounded ==
    \A i \in Slots :
        (Bounded(inv[i]) /\ inv[i].pc = "fetch") ~> (inv[i].pc # "fetch")

\* C3: in the createServer geocode and get-weather handlers, every way an
\* invocation that started its timer finishes leaves the timer cleared (or
\* already run), the timer is cleared as soon as the response has arrived, and
\* an abort is only ever signalled to an invocation that then ends in the
\* timeout error: never to one that has completed or whose response arrived.
C3_TimerAlwaysCleared ==
    \A i \in Slots :
        LET r == inv[i]
        IN  Bounded(r) =>
               /\ r.pc = "done" => r.timer # "armed"
               /\ r.pc = "body" => r.timer = "cleared" /\ ~r.aborted
               /\ r.aborted => r.timer = "fired" /\ r.http = 0 /\ r.cause = "timeout"
               /\ r.http # 0 => r.timer = "cleared"

C3_Witness ==
    \E i, j \in Slots :
        /\ Bounded(inv[i]) /\ inv[i].pc = "done" /\ inv[i].kind = "ok"
        /\ inv[i].timer = "cleared"
        /\ Bounded(inv[j]) /\ inv[j].pc = "done" /\ inv[j].cause = "malformed"
        /\ inv[j].timer = "cleared"

\* C4: for the tools that do an HTTP lookup (geocode and get-weather of
\* createServer, geocode and get_weather of the module-level server) a
\* response with a status outside 200-299 ends the invocation with an error
\* whose message carries that status, never with a success.
C4_NonSuccessStatusIsError ==
    \A i \in Slots :
        LET r == inv[i]
        IN  (r.http # 0 /\ ~(r.http \in 200..299)) =>
               /\ r.pc = "done" /\ r.kind = "error"
               /\ r.cause = "status" /\ r.status = r.http

C4_Witness ==
    \E i, j \in Slots :
        /\ inv[i].srv = "createServer" /\ inv[i].http = 404 /\ inv[i].status = 404
        /\ inv[i].kind = "error"
        /\ inv[j].srv = "module" /\ inv[j].http = 500 /\ inv[j].status = 500
        /\ inv[j].kind = "error"

\* C5: no invocation issues more than one outbound request; an invocation
\* that ended in an error after its request was sent has sent exactly one.
C5_SingleRequest ==
    \A i \in Slots :
        LET r == inv[i]
        IN  /\ r.requests <= 1
            /\ (r.pc \in {"fetch", "body"}) => r.requests = 1
            /\ (r.pc = "done" /\ r.cause \in {"timeout", "status", "malformed",
                                              "network", "notFound", "apiError",
                                              "provider", "typeError"})
                   => r.kind = "error" /\ r.requests = 1

C5_Witness ==
    \E i, j \in Slots :
        /\ Bounded(inv[i]) /\ inv[i].cause = "network" /\ inv[i].requests = 1
        /\ inv[j].tool = "generate-image" /\ inv[j].cause = "provider"
        /\ inv[j].requests = 1

\* C6: the deadline of one invocation changes nothing of any other
\* invocation: a step in which the timer of i fires leaves every other
\* invocation as it was, and an abort signal only ever reaches the
\* invocation whose own timer fired in that step.
C6_AbortIsScoped ==
    [][\A i \in Slots :
          /\ (inv[i].timer = "armed" /\ inv'[i].timer = "fired")
                 => \A j \in Slots \ {i} : inv'[j] = inv[j]
          /\ (~inv[i].aborted /\ inv'[i].aborted)
                 => (inv[i].timer = "armed" /\ inv'[i].timer = "fired")]_vars

C6_Witness ==
    \E i, j \in Slots :
        /\ i # j
        /\ inv[i].timer = "fired" /\ inv[i].cause = "timeout"
        /\ Bounded(inv[j]) /\ inv[j].pc = "fetch" /\ inv[j].timer = "armed"
        /\ ~inv[j].aborted

\* ------------------------------------------------- claims on local handlers
IsDivision(c) ==
    c.op = "calculator" /\ c.args.operator \in {"/", "divide"}

\* C7: for every first operand the calculator called with the division
\* operator and a second operand equal to zero ends in a domain error and
\* produces no result; no result of a division is Infinity or NaN.
C7_DivisionNeverInfinite ==
    IsDivision(local) =>
        /\ IsZero(local.args.b) =>
               /\ local.out.kind = "error" /\ local.out.cause = "divideByZero"
               /\ local.out.text = <<>>
        /\ local.out.kind = "ok" => local.out.text[1].k = "fin"

\* The part of C7 the code keeps: a zero divisor (+0 or -0) is always refused.
C7_ZeroDivisorRefused ==
    (IsDivision(local) /\ IsZero(local.args.b)) =>
        /\ local.out.kind = "error" /\ local.out.cause = "divideByZero"
        /\ local.out.text = <<>>

IsPrimeNumber(p) == p > 1 /\ \A d \in 2..(p - 1) : p % d # 0

\* C8: primeNumbers ends in a domain error when start > end; otherwise it
\* lists exactly the primes p with start <= p <= end, each once, ascending,
\* reports their number, and reports "none" exactly when there is none.
C8_PrimeNumbersExact ==
    local.op = "primeNumbers" =>
        LET s == local.args.start
            e == local.args.end
            out == local.out
        IN  IF s > e
            THEN out.kind = "error" /\ out.cause = "range"
            ELSE /\ out.kind = "ok"
                 /\ {out.primes[k] : k \in 1..Len(out.primes)}
                        = {p \in s..e : IsPrimeNumber(p)}
                 /\ \A k \in 1..(Len(out.primes) - 1) :
                        out.primes[k] < out.primes[k + 1]
                 /\ out.count = Cardinality({p \in s..e : IsPrimeNumber(p)})
                 /\ out.none = ({p \in s..e : IsPrimeNumber(p)} = {})
                 /\ (s = 2 /\ e = 10) => out.primes = <<2, 3, 5, 7>>

C8_Witness ==
    /\ local.op = "primeNumbers"
    /\ local.args.start = 2 /\ local.args.end = 10
    /\ local.out.primes = <<2, 3, 5, 7>> /\ local.out.count = 4

\* C9: isPrime(n) is true exactly when n is a prime number: false for every
\* n < 2, true for 2, false for every even n > 2, and for odd n >= 3 true
\* exactly when no odd i >= 3 with i*i <= n divides n.
C9_IsPrimeExact ==
    local.op = "isPrime" =>
        LET n == local.args.n
        IN  /\ local.out = IsPrimeNumber(n)
            /\ n < 2 => ~local.out
            /\ n = 2 => local.out
            /\ (n > 2 /\ n % 2 = 0) => ~local.out
            /\ (n >= 3 /\ n % 2 = 1) =>
                   (local.out = ~\E i \in 3..n : i % 2 = 1 /\ i * i <= n /\ n % i = 0)

C9_Witness ==
    local.op = "isPrime" /\ local.args.n = 25 /\ local.out = FALSE

\* The text the claim describes: every placeholder of the template replaced
\* by the argument's text, taken literally.
RECURSIVE Substituted(_, _, _)
Substituted(template, code, reviewFocus) ==
    IF template = <<>> THEN <<>>
    ELSE LET t == Head(template)
             out == CASE t = "{code}" -> code
                      [] t = "{reviewFocus}" -> reviewFocus
                      [] OTHER -> <<t>>
         IN  out \o Substituted(Tail(template), code, reviewFocus)

\* C10: for every code and every reviewFocus (given or omitted) the prompt
\* text is the template with {code} replaced by the code and {reviewFocus}
\* by the focus, or by the fallback focus when it is omitted or empty.
C10_PromptIsSubstitutedTemplate ==
    local.op = "codeReview" =>
        local.out = Substituted(codeReviewPromptTemplate, local.args.code,
                                IF local.args.focus.given /\ local.args.focus.text # <<>>
                                THEN local.args.focus.text ELSE FallbackFocus)

\* C11: on each server the registration calls made at construction never give
\* a name that is already registered, so none of them fails and the tools
\* registered are the calls made so far, one tool per call; once a server is
\* constructed its set of registered tools never changes.
C11_RegistrationsNeverCollide ==
    /\ [](\A srv \in Servers :
            /\ ~registry[srv].failed
            /\ registry[srv].names = SubSeq(ToolCalls(srv), 1, registry[srv].calls)
            /\ Cardinality(Range(registry[srv].names)) = registry[srv].calls)
    /\ [][\A srv \in Servers :
            Constructed(srv) => registry'[srv] = registry[srv]]_vars

C11_Witness ==
    /\ \A srv \in Servers : Constructed(srv) /\ registry[srv] = Built(srv)
    /\ Len(registry["createServer"].names) = 7
    /\ Len(registry["module"].names) = 6
    /\ Len(infos) > 0

\* C12: the tool listing returned by a read of mcp://server-info is the
\* sequence of the tools registered on the createServer instance: the same
\* names, each once, in registration order.
C12_ListingIsRegistry ==
    \A k \in 1..Len(infos) :
        /\ infos[k].tools = registry["createServer"].names
        /\ Cardinality(Range(infos[k].tools)) = Len(infos[k].tools)

C12_Witness ==
    /\ Len(infos) > 0
    /\ infos[1].tools =
          <<"greet", "calculator", "primeNumbers", "currentTime", "geocode",
            "get-weather", "generate-image">>

\* C19: in the reads of mcp://server-info of one run, startTime is the same
\* in every read, and uptime is computed at each read from the clock at that
\* read: it is the whole seconds elapsed then and never smaller than the
\* uptime of an earlier read.
C19_StartTimeFixedUptimeGrows ==
    \A a \in 1..Len(infos), b \in 1..Len(infos) :
        /\ infos[a].startTime = serverStartTime
        /\ infos[a].uptime = infos[a].timestamp \div TicksPerSecond
        /\ infos[a].timestamp <= now
        /\ a <= b => /\ infos[a].startTime = infos[b].startTime
                     /\ infos[a].uptime <= infos[b].uptime

C19_Witness ==
    /\ Len(infos) >= 2
    /\ infos[1].uptime < infos[2].uptime
    /\ infos[1].startTime = infos[2].startTime
    /\ infos[2].timestamp > infos[2].startTime

ImageTool(r) == r.tool \in {"generate-image", "generate_image"}

NoTokenError(r) ==
    r.pc = "done" /\ r.kind = "error" /\ r.cause = "noToken" /\ r.requests = 0

\* C13: both servers are built whether or not a token is given.  With no
\* configured token and HF_TOKEN unset, every image generation invocation
\* with a non-empty prompt ends in the credential-missing error and sends no
\* request.  A request sent by the createServer tool is made with the
\* configured token when there is one and with HF_TOKEN otherwise; the
\* module-level tool, which has no configuration, uses HF_TOKEN.
C13_CredentialResolution ==
    /\ \A srv \in Servers : ~registry[srv].failed /\ Constructed(srv)
    /\ \A i \in Slots :
          LET r == inv[i]
          IN  (ImageTool(r) /\ r.pc # "idle") =>
                /\ (r.srv = "createServer" /\ configToken = "" /\ envToken = ""
                       /\ Trim(r.arg) # <<>>) => NoTokenError(r)
                /\ (r.srv = "module" /\ envToken = "") => NoTokenError(r)
                /\ (r.srv = "createServer" /\ r.requests > 0) =>
                       r.cred = (IF configToken # "" THEN configToken ELSE envToken)
                /\ (r.srv = "module" /\ r.requests > 0) => r.cred = envToken
                /\ r.requests > 0 => r.cred # ""

C13_Witness ==
    /\ configToken = "" /\ envToken = ""
    /\ inv[1].tool = "generate-image" /\ inv[1].arg = <<"cat">> /\ NoTokenError(inv[1])
    /\ inv[2].tool = "generate_image" /\ NoTokenError(inv[2])

\* C14: what an image generation invocation does about its credential is
\* fixed when the server is built: two invocations of the same tool with the
\* same prompt either both end in the credential-missing error or neither
\* does, and those that send a request use the same credential, whatever
\* happened to HF_TOKEN in between.
C14_CredentialFixedAtStartup ==
    \A i \in Slots, j \in Slots :
        LET r == inv[i]
            q == inv[j]
        IN  (ImageTool(r) /\ r.pc # "idle" /\ q.pc # "idle"
               /\ r.srv = q.srv /\ r.tool = q.tool /\ r.arg = q.arg) =>
              /\ (r.kind = "error" /\ r.cause = "noToken")
                    <=> (q.kind = "error" /\ q.cause = "noToken")
              /\ (r.requests > 0 /\ q.requests > 0) => r.cred = q.cred

\* The same, for the tool registered by createServer only (this holds).
C14_CreateServerCredentialFixed ==
    \A i \in Slots :
        (inv[i].tool = "generate-image" /\ inv[i].pc # "idle") =>
           /\ inv[i].requests > 0 => inv[i].cred = hfToken /\ hfToken # ""
           /\ (inv[i].kind = "error" /\ inv[i].cause = "noToken") => hfToken = ""

\* C15: a location lookup whose search string is empty, or empty once
\* trimmed, ends in a domain error, starts no deadline timer and sends no
\* request.
C15_EmptySearchRefused ==
    \A i \in Slots :
        (inv[i].tool = "geocode" /\ inv[i].pc # "idle" /\ Trim(inv[i].arg) = <<>>) =>
           /\ inv[i].pc = "done" /\ inv[i].kind = "error"
           /\ inv[i].timer = "none"
           /\ inv[i].requests = 0

\* The same, for the tool registered by createServer only (this holds).
C15_CreateServerEmptyAddressRefused ==
    \A i \in Slots :
        (inv[i].srv = "createServer" /\ inv[i].tool = "geocode"
           /\ inv[i].pc # "idle" /\ Trim(inv[i].arg) = <<>>) =>
           /\ inv[i].pc = "done" /\ inv[i].kind = "error"
           /\ inv[i].cause = "emptyAddress"
           /\ inv[i].timer = "none"
           /\ inv[i].requests = 0

\* C16: every request sent by a location lookup or a weather lookup carries
\* a User-Agent header, the same for all requests of one server, and is sent
\* with a deadline timer set: 10 s for a location lookup, 15 s for a weather
\* lookup.
C16_RequestsIdentifiedAndBounded ==
    \A i \in Slots, j \in Slots :
        (HttpTool(inv[i]) /\ inv[i].requests > 0) =>
           /\ inv[i].ua # ""
           /\ (HttpTool(inv[j]) /\ inv[j].requests > 0 /\ inv[j].srv = inv[i].srv)
                 => inv[j].ua = inv[i].ua
           /\ inv[i].timer # "none"
           /\ inv[i].deadline = (IF inv[i].tool = "geocode" THEN GeocodeTimeoutMs
                                 ELSE WeatherTimeoutMs)

\* What does hold: the createServer tools set their deadline, and every
\* request but those of createServer's get-weather carries a User-Agent.
C16_WhatHolds ==
    \A i \in Slots :
        (HttpTool(inv[i]) /\ inv[i].requests > 0) =>
           /\ inv[i].srv = "createServer" =>
                 /\ inv[i].timer # "none"
                 /\ inv[i].deadline = (IF inv[i].tool = "geocode"
                                       THEN GeocodeTimeoutMs ELSE WeatherTimeoutMs)
           /\ inv[i].tool # "get-weather" => inv[i].ua # ""

\* C20: in createServer's geocode and get-weather a body that carries no
\* usable data never gives a success: a geocode body that is not an array,
\* or is an empty array, ends in the address-not-found error; a get-weather
\* body with its error flag set ends in an error; a geocode success comes
\* from a success status and a non-empty array, and is built from its first
\* element.
C20_NoDataNoSuccess ==
    \A i \in Slots :
        LET r == inv[i]
        IN  r.srv = "createServer" =>
              /\ (r.tool = "geocode" /\ r.body \in {"notArray", "emptyArray"}) =>
                    r.pc = "done" /\ r.kind = "error" /\ r.cause = "notFound"
              /\ (r.tool = "get-weather" /\ r.body = "errorFlag") =>
                    r.pc = "done" /\ r.kind = "error" /\ r.cause = "apiError"
              /\ (r.tool = "geocode" /\ r.kind = "ok") =>
                    /\ ResponseOk(r.http)
                    /\ r.body = "array"
                    /\ r.data = "first"

C20_Witness ==
    /\ inv[1].srv = "createServer" /\ inv[1].tool = "geocode"
    /\ inv[1].http = 200 /\ inv[1].body = "emptyArray"
    /\ inv[1].kind = "error" /\ inv[1].cause = "notFound"
    /\ inv[2].srv = "createServer" /\ inv[2].tool = "get-weather"
    /\ inv[2].http = 200 /\ inv[2].body = "errorFlag"
    /\ inv[2].kind = "error"

\* The calls of local handlers made so far, oldest first.
Calls == history \o (IF local.op = "none" THEN <<>> ELSE <<local>>)

DeclaredType(tool) == IF tool = "generate-image" THEN "image" ELSE "text"

\* outputSchema: an object whose content is an array of objects with the
\* literal type and the string fields of the tool.
SatisfiesSchema(tool, structured) ==
    /\ DOMAIN structured = {"content"}
    /\ \A k \in 1..Len(structured.content) :
          LET item == structured.content[k]
          IN  IF tool = "generate-image"
              THEN DOMAIN item = {"type", "data", "mimeType"} /\ item.type = "image"
              ELSE DOMAIN item = {"type", "text"} /\ item.type = "text"

WellShaped(tool, ret) ==
    /\ DOMAIN ret = {"content", "structuredContent"}
    /\ Len(ret.content) = 1
    /\ ret.content[1].type = DeclaredType(tool)
    /\ ret.content[1].type = "image" =>
          ret.content[1].data = "base64" /\ ret.content[1].mimeType = "image/png"
    /\ ret.structuredContent.content = ret.content
    /\ SatisfiesSchema(tool, ret.structuredContent)

\* C18: an invocation of a createServer tool that ends in success returns a
\* content sequence of exactly one item, of the type the tool's output
\* contract declares (image with data and MIME type for generate-image, text
\* for the others), and a structuredContent that holds the same sequence
\* and satisfies the output schema.
C18_SuccessShape ==
    /\ \A i \in Slots :
          (inv[i].srv = "createServer" /\ inv[i].kind = "ok") =>
             WellShaped(inv[i].tool, inv[i].ret)
    /\ (/\ local.op \in {"greet", "calculator", "primeNumbers", "currentTime"}
        /\ local.srv = "createServer"
        /\ local.out.kind = "ok") => WellShaped(local.op, local.ret)

C18_Witness ==
    /\ inv[1].tool = "generate-image" /\ inv[1].kind = "ok"
    /\ inv[1].ret.content[1].type = "image"
    /\ local.op = "currentTime" /\ local.out.kind = "ok"
    /\ local.ret.content[1].type = "text"
====
